---- MODULE Spec2Model ----
(***************************************************************************)
(* A model of soap/DefaultEncoder.go: the SOAP envelope encoder.           *)
(*                                                                         *)
(* Byte strings are sequences of one-character strings, so that            *)
(* strings.Split, strings.Contains and the fmt.Sprintf templates are       *)
(* computed character by character as the Go code computes them.           *)
(***************************************************************************)
EXTENDS Integers, Sequences, FiniteSets, TLC

\* ------------------------------------------------------------------ bounds

\* At most this many root elements are buffered before the buffer is emptied.
MaxEncodes == 2

\* At most this many failed sink writes happen before the buffer is emptied.
MaxFailed == 1

\* With two callers: at most this many Flush calls (and MaxEncodes Encode calls).
MaxFlushes == 1

\* ------------------------------------------------------- program constants

\* const SOAPEnvelopeStart (a raw string literal: three lines, each ended by
\* a newline).
SOAPEnvelopeStart ==
  <<
    "<", "?", "x", "m", "l", " ", "v", "e", "r", "s", "i", "o", "n", "=",
    "\"", "1", ".", "0", "\"", " ", "e", "n", "c", "o", "d", "i", "n", "g",
    "=", "\"", "u", "t", "f", "-", "8", "\"", "?", ">", "\n", "<", "s",
    "o", "a", "p", ":", "E", "n", "v", "e", "l", "o", "p", "e", " ", "x",
    "m", "l", "n", "s", ":", "s", "o", "a", "p", "=", "\"", "h", "t", "t",
    "p", ":", "/", "/", "s", "c", "h", "e", "m", "a", "s", ".", "x", "m",
    "l", "s", "o", "a", "p", ".", "o", "r", "g", "/", "s", "o", "a", "p",
    "/", "e", "n", "v", "e", "l", "o", "p", "e", "/", "\"", ">", "\n", " ",
    " ", "<", "s", "o", "a", "p", ":", "B", "o", "d", "y", ">", "\n" >>

\* const SOAPEnvelopeEnd (two lines, no trailing newline).
SOAPEnvelopeEnd ==
  <<
    " ", " ", "<", "/", "s", "o", "a", "p", ":", "B", "o", "d", "y", ">",
    "\n", "<", "/", "s", "o", "a", "p", ":", "E", "n", "v", "e", "l", "o",
    "p", "e", ">" >>

\* The error values an operation returns.
ErrNil == "nil"
ErrXMLName == "struct must have XMLName field"
ErrSink == "sink write error"

\* ----------------------------------------------------------- the standard
\* library functions the encoder calls

\* The index of the first occurrence of the character sep in s, 0 if none.
IndexByte(s, sep) ==
  IF \E i \in 1..Len(s) : s[i] = sep
  THEN CHOOSE i \in 1..Len(s) : s[i] = sep /\ \A j \in 1..(i - 1) : s[j] # sep
  ELSE 0

\* strings.Split(s, sep) for a one-character separator: the parts between
\* the separators; a string without separator (the empty one too) is one part.
RECURSIVE Split(_, _)
Split(s, sep) ==
  LET i == IndexByte(s, sep)
  IN  IF i = 0
      THEN << s >>
      ELSE << SubSeq(s, 1, i - 1) >> \o Split(SubSeq(s, i + 1, Len(s)), sep)

\* strings.Contains(s, substr)
Contains(s, substr) ==
  \E i \in 0..(Len(s) - Len(substr)) : SubSeq(s, i + 1, i + Len(substr)) = substr

DigitChar == << "0", "1", "2", "3", "4", "5", "6", "7", "8", "9" >>

\* The base-10 digits of a natural number, most significant first.
RECURSIVE Digits(_)
Digits(n) ==
  IF n < 10
  THEN << DigitChar[n + 1] >>
  ELSE Digits(n \div 10) \o << DigitChar[(n % 10) + 1] >>

\* fmt.Sprintf("%d", n)
FormatInt(n) == IF n < 0 THEN << "-" >> \o Digits(-n) ELSE Digits(n)

\* fmt.Sprintf("%v", b) for a bool
FormatBool(b) ==
  IF b THEN << "t", "r", "u", "e" >> ELSE << "f", "a", "l", "s", "e" >>

\* ------------------------------------------------------------ the records
\* A struct value as reflect shows it: the sequence of its fields in
\* declaration order, each with its Go name, the value of its xml tag key,
\* its kind and its value.  A value is kept in the slot of its kind.

IntV(n) == [i |-> n, s |-> << >>, b |-> FALSE]
StrV(s) == [i |-> 0, s |-> s, b |-> FALSE]
BoolV(b) == [i |-> 0, s |-> << >>, b |-> b]

Field(name, tag, kind, v) == [Name |-> name, Tag |-> tag, Kind |-> kind, Val |-> v]

NameXMLName == << "X", "M", "L", "N", "a", "m", "e" >>

\* The field XMLName xml.Name with the given xml tag.
XMLNameField(tag) == Field(NameXMLName, tag, "struct", IntV(0))

OmitEmpty == << "o", "m", "i", "t", "e", "m", "p", "t", "y" >>

FieldNm(tag, s) == Field(<< "N", "m" >>, tag, "string", StrV(s))
FieldAg(tag, n) == Field(<< "A", "g" >>, tag, "int", IntV(n))
FieldOk(tag, b) == Field(<< "O", "k" >>, tag, "bool", BoolV(b))

StrVals == { << >>, << "A", "l" >> }
IntVals == { 0, 30 }

\* struct { XMLName `xml:"u P"`; Nm string `xml:"Nm"`; Ag int `xml:"Ag,omitempty"` }
Persons ==
  { << XMLNameField(<< "u", " ", "P" >>),
       FieldNm(<< "N", "m" >>, s),
       FieldAg(<< "A", "g", "," >> \o OmitEmpty, n) >> : s \in StrVals, n \in IntVals }

\* struct { Ag int `xml:"Ag"`; XMLName `xml:"u I"`; Ok bool `xml:"Ok"` }:
\* XMLName declared between two fields
Items ==
  { << FieldAg(<< "A", "g" >>, n), XMLNameField(<< "u", " ", "I" >>),
       FieldOk(<< "O", "k" >>, TRUE) >> : n \in { 0, -7 } }

\* struct { XMLName `xml:"P"` }: a tag of one part
OnePart == { << XMLNameField(<< "P" >>) >> }

\* struct { XMLName `xml:"a b c"`; Nm string `xml:"Nm"` }: a tag of three parts
ThreeParts ==
  { << XMLNameField(<< "a", " ", "b", " ", "c" >>),
       FieldNm(<< "N", "m" >>, << "A", "l" >>) >> }

\* struct { XMLName `xml:""` }: an empty tag
EmptyTag == { << XMLNameField(<< >>) >> }

\* struct { XMLName `xml:" Q"`; Nm string `xml:"Nm,omitempty"` }: no namespace
NoNamespace ==
  { << XMLNameField(<< " ", "Q" >>),
       FieldNm(<< "N", "m", "," >> \o OmitEmpty, s) >> : s \in StrVals }

\* struct { XMLName `xml:"u P"`; Ag int `xml:"omitemptyAg"` }: the element name
\* contains the text omitempty, the tag has no modifier
OmitInName ==
  { << XMLNameField(<< "u", " ", "P" >>), FieldAg(OmitEmpty \o << "A", "g" >>, 0) >> }

\* struct { XMLName `xml:"u "` } and struct { XMLName `xml:" "` }: two parts,
\* the local name empty
NoLocalName == { << XMLNameField(<< "u", " " >>) >>, << XMLNameField(<< " " >>) >> }

\* struct { Nm string `xml:"Nm"` } and struct {}: no XMLName field
NoXMLName == { << FieldNm(<< "N", "m" >>, s) >> : s \in StrVals } \cup { << >> }

Structs ==
  Persons \cup Items \cup OnePart \cup ThreeParts \cup EmptyTag \cup NoNamespace
    \cup OmitInName \cup NoLocalName \cup NoXMLName

\* What Encode is given: a struct, or a pointer to one.
Values == [isPtr : { FALSE }, elem : Structs] \cup [isPtr : { TRUE }, elem : Persons]

\* ---------------------------------------------------------------- Encode

\* val := reflect.ValueOf(v); if val.Kind() == reflect.Ptr { val = val.Elem() }
Elem(v) == v.elem

\* getXMLNameFrom with a tag that is not two parts giving no name at all.
RECURSIVE getXMLNameFromStrict(_, _)
getXMLNameFromStrict(val, i) ==
  IF i > Len(val)
  THEN << << >>, << >> >>
  ELSE IF val[i].Name = NameXMLName
       THEN LET parts == Split(val[i].Tag, " ")
            IN  IF Len(parts) = 2
                THEN << parts[2], parts[1] >>
                ELSE << << >>, << >> >>
       ELSE getXMLNameFromStrict(val, i + 1)

\* getXMLNameAndNamespace, from field i on: << element name, namespace >>
RECURSIVE getXMLNameFrom(_, _)
getXMLNameFrom(val, i) ==
  IF i > Len(val)
  THEN << << >>, << >> >>
  ELSE IF val[i].Name = NameXMLName
       THEN LET parts == Split(val[i].Tag, " ")
            IN  IF Len(parts) = 2
                THEN << parts[2], parts[1] >>
                ELSE << val[i].Name, << >> >>
       ELSE getXMLNameFrom(val, i + 1)

getXMLNameAndNamespace(val) == getXMLNameFrom(val, 1)

\* field.IsZero()
IsZero(field) ==
  CASE field.Kind = "int" -> field.Val.i = 0
    [] field.Kind = "string" -> field.Val.s = << >>
    [] field.Kind = "bool" -> field.Val.b = FALSE
    [] OTHER -> TRUE

\* The switch on field.Kind() that formats the field value.
FormatValue(field) ==
  CASE field.Kind = "int" -> FormatInt(field.Val.i)
    [] field.Kind = "string" -> field.Val.s
    [] OTHER -> FormatBool(field.Val.b)

\* fmt.Sprintf("    <%s xmlns=\"%s\">", xmlName, namespace)
RootStart(xmlName, namespace) ==
  << " ", " ", " ", " ", "<" >> \o xmlName
    \o << " ", "x", "m", "l", "n", "s", "=", "\"" >> \o namespace \o << "\"", ">" >>

\* FieldXML with the indentation of the root element.
FieldXMLIndent(fieldName, fieldValue) ==
  << "\n", " ", " ", " ", " ", "<" >> \o fieldName
    \o << " ", "x", "m", "l", "n", "s", "=", "\"", "\"", ">" >> \o fieldValue
    \o << "<", "/" >> \o fieldName \o << ">" >>

\* fmt.Sprintf("\n      <%s xmlns=\"\">%s</%s>", fieldName, fieldValue, fieldName)
FieldXML(fieldName, fieldValue) ==
  << "\n", " ", " ", " ", " ", " ", " ", "<" >> \o fieldName
    \o << " ", "x", "m", "l", "n", "s", "=", "\"", "\"", ">" >> \o fieldValue
    \o << "<", "/" >> \o fieldName \o << ">" >>

\* fmt.Sprintf("\n    </%s>", xmlName)
RootEnd(xmlName) ==
  << "\n", " ", " ", " ", " ", "<", "/" >> \o xmlName \o << ">" >>

\* The name-XMLName test that skips the field.
SkipXMLName(field) == field.Name = NameXMLName

\* SkipEmpty without the omitempty test.
SkipEmptyAnyZero(field) == IsZero(field)

\* The test that skips an empty field with omitempty.
SkipEmpty(field) == IsZero(field) /\ Contains(field.Tag, OmitEmpty)

\* One iteration of the field loop: the buffer after field `field`.
ProcessField(buf, field) ==
  IF SkipXMLName(field)
  THEN buf
  ELSE LET parts == Split(field.Tag, ",")
           fieldName == parts[1]
       IN  IF SkipEmpty(field)
           THEN buf
           ELSE buf \o FieldXML(fieldName, FormatValue(field))

\* ProcessFields taking the fields from the last one to the first.
RECURSIVE ProcessFieldsBackward(_, _, _)
ProcessFieldsBackward(buf, val, i) ==
  IF i > Len(val)
  THEN buf
  ELSE ProcessFieldsBackward(ProcessField(buf, val[Len(val) + 1 - i]), val, i + 1)

\* The field loop, from field i on.
RECURSIVE ProcessFields(_, _, _)
ProcessFields(buf, val, i) ==
  IF i > Len(val) THEN buf ELSE ProcessFields(ProcessField(buf, val[i]), val, i + 1)

\* The error Encode returns for val.
EncodeErr(val) ==
  IF getXMLNameAndNamespace(val)[1] = << >> THEN ErrXMLName ELSE ErrNil

\* StartEnvelope without the test for an empty buffer.
StartEnvelopeAlways(buf) == buf \o SOAPEnvelopeStart

\* The lazy start of the envelope.
StartEnvelope(buf) == IF Len(buf) = 0 THEN buf \o SOAPEnvelopeStart ELSE buf

\* EncodeBuffer with the envelope started before the XMLName check.
EncodeBufferEager(buf, val) ==
  LET nn == getXMLNameAndNamespace(val)
      xmlName == nn[1]
      namespace == nn[2]
  IN  IF xmlName = << >>
      THEN StartEnvelope(buf)
      ELSE ProcessFields(StartEnvelope(buf) \o RootStart(xmlName, namespace), val, 1)
             \o RootEnd(xmlName)

\* EncodeBuffer without the return on an empty element name.
EncodeBufferUnchecked(buf, val) ==
  LET nn == getXMLNameAndNamespace(val)
      xmlName == nn[1]
      namespace == nn[2]
  IN  ProcessFields(StartEnvelope(buf) \o RootStart(xmlName, namespace), val, 1)
        \o RootEnd(xmlName)

\* The buffer Encode leaves for val, from the buffer buf.
EncodeBuffer(buf, val) ==
  LET nn == getXMLNameAndNamespace(val)
      xmlName == nn[1]
      namespace == nn[2]
  IN  IF xmlName = << >>
      THEN buf
      ELSE ProcessFields(StartEnvelope(buf) \o RootStart(xmlName, namespace), val, 1)
             \o RootEnd(xmlName)

\* ----------------------------------------------------------------- Flush

\* The buffer Flush hands to the writer: the envelope end after a newline.
FlushAppend(buf) == buf \o << "\n" >> \o SOAPEnvelopeEnd

\* FlushWrites without the test for an empty buffer.
FlushWritesAlways(buf) == << FlushAppend(buf) >>

\* FlushWrites with a second attempt.
FlushWritesRetry(buf) ==
  IF Len(buf) > 0 THEN << FlushAppend(buf), FlushAppend(buf) >> ELSE << >>

\* The writer.Write calls of one Flush, each with the bytes it is given.
FlushWrites(buf) == IF Len(buf) > 0 THEN << FlushAppend(buf) >> ELSE << >>

\* The error Flush returns; ok says whether the writer accepts the write.
FlushErr(buf, ok) == IF Len(buf) > 0 /\ ~ok THEN ErrSink ELSE ErrNil

\* FlushBuffer without the reset.
FlushBufferKeep(buf, ok) == IF Len(buf) > 0 THEN FlushAppend(buf) ELSE buf

\* The buffer Flush leaves.
FlushBuffer(buf, ok) ==
  IF Len(buf) > 0
  THEN IF ~ok THEN FlushAppend(buf) ELSE << >>
  ELSE buf

\* ------------------------------------------------------------- the state

VARIABLES
  buffer,   \* e.buffer
  written,  \* the byte strings the last call handed to e.writer.Write, in order
  events,   \* history: what went into the buffer since it was last empty
  last,     \* history: the last call, its argument, its result, the state before it
  trail,    \* history: which run of calls the last calls completed
  caller,   \* two callers without synchronization: the one that calls Encode
  flusher,  \* two callers without synchronization: the one that calls Flush
  sink,     \* two callers: every byte string handed to e.writer.Write, in order
  lost      \* two callers, history: the Encode calls whose accesses of e.buffer
            \* all fell between the write and the reset of one Flush call

vars == << buffer, written, events, last, trail, caller, flusher, sink, lost >>

\* The state of one caller at a time and the state of two callers.
seqVars == << written, events, last, trail >>
concVars == << caller, flusher, sink, lost >>

\* An event of the history: a record encoded, or a failed write of Flush.
Encoded(val) == [fail |-> FALSE, val |-> val]
Failed == [fail |-> TRUE, val |-> << >>]

NumEncoded(ev) == Cardinality({ i \in 1..Len(ev) : ~ev[i].fail })
NumFailed(ev) == Cardinality({ i \in 1..Len(ev) : ev[i].fail })

\* The record of a call: ok is the writer's answer to a write (TRUE where
\* the call is no Flush), buffer and events are those before the call.
Call(op, val, ok, err) ==
  [op |-> op, val |-> val, ok |-> ok, err |-> err, buffer |-> buffer, events |-> events]

FirstCall ==
  [op |-> "NewEncoder", val |-> << >>, ok |-> TRUE, err |-> ErrNil,
   buffer |-> << >>, events |-> << >>]

\* The runs of calls the history follows:
\*   "rej"            an Encode of a record without XMLName field, rejected
\*   "rej-enc"        the same, then a successful Encode
\*   "rej-enc-flush"  the same, then a Flush whose write succeeded
\*   "flush"          a Flush whose write succeeded
\*   "flush-enc"      the same, then a successful Encode
\*   "none"           anything else
TrailAfterEncode(val, err) ==
  IF err # ErrNil
  THEN IF \A i \in 1..Len(val) : val[i].Name # NameXMLName THEN "rej" ELSE "none"
  ELSE CASE trail = "rej" -> "rej-enc"
         [] trail \in { "flush", "rej-enc-flush" } -> "flush-enc"
         [] OTHER -> "none"

TrailAfterFlush(ok) ==
  IF Len(buffer) > 0 /\ ok
  THEN IF trail = "rej-enc" THEN "rej-enc-flush" ELSE "flush"
  ELSE "none"

\* The caller of Encode before its first call: k counts its calls, val is the
\* record of the call, step the statement it is at, tmp the e.buffer it read,
\* err what the call returns, rets what the calls returned; near and window
\* say whether every access of e.buffer by the call fell between the write
\* and the reset of Flush call number window.
CallerIdle ==
  [pc |-> "idle", k |-> 0, val |-> << >>, step |-> 0, tmp |-> << >>, err |-> ErrNil,
   rets |-> << >>, near |-> FALSE, window |-> 0]

\* The caller of Flush before its first call: c counts its calls, tmp is the
\* e.buffer it read, fails counts the writes the writer refused.
FlusherIdle == [pc |-> "idle", c |-> 0, tmp |-> << >>, fails |-> 0]

\* NewEncoder: an empty buffer and no I/O.
Init ==
  /\ buffer = << >>
  /\ written = << >>
  /\ events = << >>
  /\ last = FirstCall
  /\ trail = "none"
  /\ caller = CallerIdle
  /\ flusher = FlusherIdle
  /\ sink = << >>
  /\ lost = { }

\* The program replaces its encoder by a new one.
NewEncoder ==
  /\ buffer' = << >>
  /\ written' = << >>
  /\ events' = << >>
  /\ last' = FirstCall
  /\ trail' = "none"
  /\ UNCHANGED concVars

Encode(v) ==
  LET val == Elem(v)
      err == EncodeErr(val)
  IN  /\ err = ErrNil => NumEncoded(events) < MaxEncodes
      /\ buffer' = EncodeBuffer(buffer, val)
      /\ written' = << >>
      /\ events' = IF err = ErrNil THEN Append(events, Encoded(val)) ELSE events
      /\ last' = Call("Encode", val, TRUE, err)
      /\ trail' = TrailAfterEncode(val, err)
      /\ UNCHANGED concVars

Flush(ok) ==
  /\ (Len(buffer) > 0 /\ ~ok) => NumFailed(events) < MaxFailed
  /\ buffer' = FlushBuffer(buffer, ok)
  /\ written' = FlushWrites(buffer)
  /\ events' = IF Len(buffer) = 0 \/ ok THEN << >> ELSE Append(events, Failed)
  /\ last' = Call("Flush", << >>, ok, FlushErr(buffer, ok))
  /\ trail' = TrailAfterFlush(ok)
  /\ UNCHANGED concVars

Next ==
  \/ NewEncoder
  \/ \E v \in Values : Encode(v)
  \/ \E ok \in BOOLEAN : Flush(ok)

Spec == Init /\ [][Next]_vars

\* ------------------------------------------------------------ two callers
\* Encode and Flush called on the same encoder by two callers with no
\* synchronization.  Every statement e.buffer = append(e.buffer, x) is a
\* read of e.buffer followed by a write of it, and the statements of the two
\* calls interleave.

\* The record of the k-th Encode call: struct { XMLName `xml:"u P"`; Ag int
\* `xml:"Ag"` } with Ag = k, so that every call has a root element of its own.
ConcRecord(k) == << XMLNameField(<< "u", " ", "P" >>), FieldAg(<< "A", "g" >>, k) >>

\* The statements of Encode that append, numbered: 0 the envelope start,
\* 1 the root start, 1 + i the field i, Len(val) + 2 the root end.
LastStep(val) == Len(val) + 2
IsFieldStep(val, step) == step >= 2 /\ step <= Len(val) + 1

\* The field loop passes the field of this step without touching the buffer.
StepSkips(val, step) ==
  IsFieldStep(val, step) /\ (SkipXMLName(val[step - 1]) \/ SkipEmpty(val[step - 1]))

\* What statement number step writes to e.buffer, having read tmp.
StepAppend(tmp, val, step) ==
  CASE step = 0 -> tmp \o SOAPEnvelopeStart
    [] step = 1 -> tmp \o RootStart(getXMLNameAndNamespace(val)[1],
                                    getXMLNameAndNamespace(val)[2])
    [] IsFieldStep(val, step) -> ProcessField(tmp, val[step - 1])
    [] OTHER -> tmp \o RootEnd(getXMLNameAndNamespace(val)[1])

\* e.buffer = []byte{} without the assignment.
ResetBufferKeep(buf) == buf

\* e.buffer = []byte{}
ResetBuffer(buf) == << >>

\* History: the caller of Encode touches e.buffer.
Touch(c) ==
  [c EXCEPT !.near = c.near /\ flusher.pc = "reset"
                       /\ (c.window = 0 \/ c.window = flusher.c),
            !.window = flusher.c]

EncodeCall ==
  /\ caller.pc = "idle"
  /\ caller.k < MaxEncodes
  /\ LET val == ConcRecord(caller.k + 1)
         err == EncodeErr(val)
     IN  caller' = [caller EXCEPT !.pc = IF err = ErrNil THEN "check" ELSE "ret",
                                  !.k = caller.k + 1, !.val = val, !.step = 0,
                                  !.tmp = << >>, !.err = err,
                                  !.near = TRUE, !.window = 0]
  /\ UNCHANGED << buffer, flusher, sink, lost, seqVars >>

\* if len(e.buffer) == 0
EncodeCheck ==
  /\ caller.pc = "check"
  /\ caller' = [Touch(caller) EXCEPT !.pc = "load",
                                     !.step = IF Len(buffer) = 0 THEN 0 ELSE 1]
  /\ UNCHANGED << buffer, flusher, sink, lost, seqVars >>

\* continue: the XMLName field, an empty field with omitempty
EncodeSkip ==
  /\ caller.pc = "load"
  /\ StepSkips(caller.val, caller.step)
  /\ caller' = [caller EXCEPT !.step = caller.step + 1]
  /\ UNCHANGED << buffer, flusher, sink, lost, seqVars >>

\* append(e.buffer, ...): the read of e.buffer
EncodeLoad ==
  /\ caller.pc = "load"
  /\ ~StepSkips(caller.val, caller.step)
  /\ caller' = [Touch(caller) EXCEPT !.pc = "store", !.tmp = buffer]
  /\ UNCHANGED << buffer, flusher, sink, lost, seqVars >>

\* e.buffer = append(...): the write of e.buffer
EncodeStore ==
  /\ caller.pc = "store"
  /\ buffer' = StepAppend(caller.tmp, caller.val, caller.step)
  /\ caller' = [Touch(caller) EXCEPT
                  !.pc = IF caller.step = LastStep(caller.val) THEN "ret" ELSE "load",
                  !.step = caller.step + 1]
  /\ UNCHANGED << flusher, sink, lost, seqVars >>

\* return nil, or the error of the XMLName check
EncodeReturn ==
  /\ caller.pc = "ret"
  /\ caller' = [caller EXCEPT !.pc = "idle", !.rets = Append(caller.rets, caller.err)]
  /\ UNCHANGED << buffer, flusher, sink, lost, seqVars >>

FlushCall ==
  /\ flusher.pc = "idle"
  /\ flusher.c < MaxFlushes
  /\ flusher' = [flusher EXCEPT !.pc = "check", !.c = flusher.c + 1]
  /\ UNCHANGED << buffer, caller, sink, lost, seqVars >>

\* if len(e.buffer) > 0; otherwise return nil
FlushCheck ==
  /\ flusher.pc = "check"
  /\ flusher' = [flusher EXCEPT !.pc = IF Len(buffer) > 0 THEN "load" ELSE "idle"]
  /\ UNCHANGED << buffer, caller, sink, lost, seqVars >>

\* append(e.buffer, "\n"+SOAPEnvelopeEnd): the read of e.buffer
FlushLoad ==
  /\ flusher.pc = "load"
  /\ flusher' = [flusher EXCEPT !.pc = "store", !.tmp = buffer]
  /\ UNCHANGED << buffer, caller, sink, lost, seqVars >>

\* e.buffer = append(...): the write of e.buffer
FlushStore ==
  /\ flusher.pc = "store"
  /\ buffer' = FlushAppend(flusher.tmp)
  /\ flusher' = [flusher EXCEPT !.pc = "write"]
  /\ UNCHANGED << caller, sink, lost, seqVars >>

\* e.writer.Write(e.buffer); on an error return it
FlushSinkWrite(ok) ==
  /\ flusher.pc = "write"
  /\ ~ok => flusher.fails < MaxFailed
  /\ sink' = Append(sink, buffer)
  /\ flusher' = [flusher EXCEPT !.pc = IF ok THEN "reset" ELSE "idle",
                                !.fails = IF ok THEN flusher.fails ELSE flusher.fails + 1]
  /\ UNCHANGED << buffer, caller, lost, seqVars >>

\* e.buffer = []byte{}; return nil
FlushReset ==
  /\ flusher.pc = "reset"
  /\ buffer' = ResetBuffer(buffer)
  /\ flusher' = [flusher EXCEPT !.pc = "idle"]
  /\ lost' = IF /\ caller.pc \in { "ret", "idle" }
                /\ caller.k > 0
                /\ caller.err = ErrNil
                /\ caller.near
                /\ caller.window = flusher.c
             THEN lost \cup { caller.k }
             ELSE lost
  /\ UNCHANGED << caller, sink, seqVars >>

NextConc ==
  \/ EncodeCall
  \/ EncodeCheck
  \/ EncodeSkip
  \/ EncodeLoad
  \/ EncodeStore
  \/ EncodeReturn
  \/ FlushCall
  \/ FlushCheck
  \/ FlushLoad
  \/ FlushStore
  \/ \E ok \in BOOLEAN : FlushSinkWrite(ok)
  \/ FlushReset

SpecConc == Init /\ [][NextConc]_vars

\* ----------------------------------------------------- what the claims say
\* The texts of the output format as the specification writes them, and the
\* helpers the claims are stated with.

NL == << "\n" >>
Spaces(n) == [i \in 1..n |-> " "]

\* <?xml version="1.0" encoding="utf-8"?>
XmlDeclaration ==
  << "<", "?", "x", "m", "l", " ", "v", "e", "r", "s", "i", "o", "n", "=",
     "\"", "1", ".", "0", "\"", " ", "e", "n", "c", "o", "d", "i", "n", "g",
     "=", "\"", "u", "t", "f", "-", "8", "\"", "?", ">" >>

\* <soap:Envelope xmlns:soap="http://schemas.xmlsoap.org/soap/envelope/">
EnvelopeOpenTag ==
  << "<", "s", "o", "a", "p", ":", "E", "n", "v", "e", "l", "o", "p", "e",
     " ", "x", "m", "l", "n", "s", ":", "s", "o", "a", "p", "=", "\"", "h",
     "t", "t", "p", ":", "/", "/", "s", "c", "h", "e", "m", "a", "s", ".",
     "x", "m", "l", "s", "o", "a", "p", ".", "o", "r", "g", "/", "s", "o",
     "a", "p", "/", "e", "n", "v", "e", "l", "o", "p", "e", "/", "\"", ">" >>

BodyOpenTag ==
  << "<", "s", "o", "a", "p", ":", "B", "o", "d", "y", ">" >>

BodyCloseTag ==
  << "<", "/", "s", "o", "a", "p", ":", "B", "o", "d", "y", ">" >>

EnvelopeCloseTag ==
  << "<", "/", "s", "o", "a", "p", ":", "E", "n", "v", "e", "l", "o", "p",
     "e", ">" >>

\* The envelope opening: three lines, the last one <soap:Body> and a newline.
Opening ==
  XmlDeclaration \o NL \o EnvelopeOpenTag \o NL \o Spaces(2) \o BodyOpenTag \o NL

\* The envelope closing: newline, 2 spaces, </soap:Body>, newline, </soap:Envelope>.
Closing == NL \o Spaces(2) \o BodyCloseTag \o NL \o EnvelopeCloseTag

RECURSIVE Concat(_)
Concat(ss) == IF ss = << >> THEN << >> ELSE Head(ss) \o Concat(Tail(ss))

IsPrefix(p, s) == Len(p) <= Len(s) /\ SubSeq(s, 1, Len(p)) = p
IsSuffix(p, s) == Len(p) <= Len(s) /\ SubSeq(s, Len(s) - Len(p) + 1, Len(s)) = p

HasXMLName(val) == \E i \in 1..Len(val) : val[i].Name = NameXMLName

\* The xml tag of the XMLName field of a record that has one.
XMLTag(val) == val[CHOOSE i \in 1..Len(val) : val[i].Name = NameXMLName].Tag

\* A tag splits on a single space into exactly two parts when it holds
\* exactly one space.
TwoParts(tag) == Cardinality({ i \in 1..Len(tag) : tag[i] = " " }) = 1

\* The element name a field declares: its tag up to the first comma.
ElementName(tag) ==
  LET commas == { i \in 1..Len(tag) : tag[i] = "," }
  IN  IF commas = { }
      THEN tag
      ELSE SubSeq(tag, 1, (CHOOSE i \in commas : \A j \in commas : i <= j) - 1)

\* omitempty is one of the modifiers of the tag: a segment after a comma.
HasOmitEmptyModifier(tag) ==
  \E i \in 1..Len(tag) :
    /\ tag[i] = ","
    /\ SubSeq(tag, i + 1, i + Len(OmitEmpty)) = OmitEmpty
    /\ (i + Len(OmitEmpty) = Len(tag) \/ tag[i + Len(OmitEmpty) + 1] = ",")

\* The value of a field is the zero value of its kind.
ZeroValue(field) == field.Val = [i |-> 0, s |-> << >>, b |-> FALSE]

\* <f xmlns="">, the start of the element of a field named f.
FieldOpenTag(f) == << "<" >> \o f \o << " ", "x", "m", "l", "n", "s", "=", "\"", "\"", ">" >>

\* The element of one emitted field: newline, 6 spaces, <f xmlns="">v</f>.
FieldElement(field) ==
  LET f == ElementName(field.Tag)
  IN  NL \o Spaces(6) \o FieldOpenTag(f) \o FormatValue(field)
        \o << "<", "/" >> \o f \o << ">" >>

\* The fields of a record that Encode emits, in declaration order.
EmittedFields(val) ==
  SelectSeq(val, LAMBDA field : ~SkipXMLName(field) /\ ~SkipEmpty(field))

\* The root element of a record named name in namespace ns: 4 spaces,
\* <name xmlns="ns">, the field elements, newline, 4 spaces, </name>.
RootElementOf(name, ns, val) ==
  LET fields == EmittedFields(val)
  IN  Spaces(4) \o << "<" >> \o name
        \o << " ", "x", "m", "l", "n", "s", "=", "\"" >> \o ns \o << "\"", ">" >>
        \o Concat([i \in 1..Len(fields) |-> FieldElement(fields[i])])
        \o NL \o Spaces(4) \o << "<", "/" >> \o name \o << ">" >>

RootElement(val) ==
  RootElementOf(getXMLNameAndNamespace(val)[1], getXMLNameAndNamespace(val)[2], val)

\* The records of a history without failed write.
Records(ev) == [i \in 1..Len(ev) |-> ev[i].val]

\* One envelope with the root elements of the records, in order.
Envelope(recs) ==
  Opening \o Concat([i \in 1..Len(recs) |-> RootElement(recs[i])]) \o Closing

\* The buffer a history leaves when nothing else is called: the encodes and
\* the failed flushes of the history, replayed from the empty buffer.
RECURSIVE Replay(_, _, _)
Replay(buf, ev, i) ==
  IF i > Len(ev)
  THEN buf
  ELSE Replay(IF ev[i].fail THEN FlushBuffer(buf, FALSE) ELSE EncodeBuffer(buf, ev[i].val),
              ev, i + 1)

\* The buffer with the envelope opening in front when it was empty.
Started(buf) == IF buf = << >> THEN Opening ELSE buf

\* What the last call appended to the started buffer.
Appended == SubSeq(buffer, Len(Started(last.buffer)) + 1, Len(buffer))

EncodeOk == last.op = "Encode" /\ last.err = ErrNil
FlushWrote == last.op = "Flush" /\ Len(last.buffer) > 0

\* ---------------------------------------------------------------- claims

\* C1 (as claimed): when Flush is called with a non-empty buffer and the
\* write fails, Flush returns the error of the sink and the buffer is empty
\* afterwards.
C1_FailedFlushEmptiesBuffer ==
  (FlushWrote /\ ~last.ok) => (last.err = ErrSink /\ buffer = << >>)

C3_NoXMLNameRejected ==
  /\ (last.op = "Encode" /\ ~HasXMLName(last.val))
       => (last.err # ErrNil /\ buffer = last.buffer /\ written = << >>)
  /\ trail = "rej-enc-flush"
       => written = << Replay(<< >>, last.events, 1) \o Closing >>

C3_Witness ==
  /\ trail = "rej-enc-flush"
  /\ Len(written) = 1
  /\ last.err = ErrNil
  /\ NumEncoded(last.events) = 2

\* C4 (as claimed): a sink write happens only when at least one record was
\* successfully encoded since the last Flush call; a Flush with no
\* successful Encode since the encoder was made or since the last Flush
\* writes nothing.  (A Flush call empties the history or ends it with a
\* failed write, so a record was encoded since the last Flush call exactly
\* when the history ends with a record.)
C4_WriteOnlyAfterEncode ==
  LET ev == last.events
      encodedSinceFlush == Len(ev) > 0 /\ ~ev[Len(ev)].fail
  IN  /\ Len(written) > 0 => (last.op = "Flush" /\ encodedSinceFlush)
      /\ (last.op = "Flush" /\ ~encodedSinceFlush) => written = << >>

\* C5: from an empty buffer, n >= 1 successful Encode calls followed by one
\* Flush make exactly one sink write, of one envelope with the n root
\* elements in call order; each successful Encode appends exactly one root
\* element after the started buffer.
C5_EncodesThenFlush ==
  /\ (last.op = "Flush" /\ Len(last.events) >= 1 /\ NumFailed(last.events) = 0)
       => written = << Envelope(Records(last.events)) >>
  /\ EncodeOk => buffer = Started(last.buffer) \o RootElement(last.val)

C5_Witness ==
  /\ last.op = "Flush"
  /\ NumFailed(last.events) = 0
  /\ Len(last.events) = 2
  /\ last.events[1] # last.events[2]
  /\ Len(written) = 1

\* C6: after a Flush that returns success the buffer is empty, the next
\* successful Encode leaves the envelope opening followed by its root
\* element alone, and the next write after a successful Flush is the
\* envelope of the records encoded after it.
C6_FreshEnvelopeAfterFlush ==
  /\ (last.op = "Flush" /\ last.err = ErrNil) => (buffer = << >> /\ events = << >>)
  /\ trail = "flush-enc" => buffer = Opening \o RootElement(last.val)
  /\ (FlushWrote /\ NumFailed(last.events) = 0)
       => written = << Envelope(Records(last.events)) >>

C6_Witness ==
  /\ trail = "flush-enc"
  /\ EncodeOk
  /\ IsPrefix(Opening, buffer)
  /\ events = << Encoded(last.val) >>

\* C7: Flush called while the buffer is empty returns success, performs no
\* sink write and leaves the buffer empty, whatever the sink would answer.
C7_FlushEmptyNoOp ==
  (last.op = "Flush" /\ last.buffer = << >>)
    => (last.err = ErrNil /\ written = << >> /\ buffer = << >>)

C7_Witness ==
  last.op = "Flush" /\ last.buffer = << >> /\ ~last.ok /\ written = << >>

\* C8: the sink is written only by Flush, at most once per call and with
\* the entire buffer (closed); NewEncoder and Encode never write, and a
\* failed write is not retried.
C8_SingleWriteInFlush ==
  /\ Len(written) <= 1
  /\ last.op \in { "NewEncoder", "Encode" } => written = << >>
  /\ Len(written) = 1 => (last.op = "Flush" /\ written[1] = last.buffer \o Closing)
  /\ (FlushWrote /\ ~last.ok) => (Len(written) = 1 /\ last.err = ErrSink)

C8_Witness ==
  FlushWrote /\ ~last.ok /\ Len(written) = 1 /\ last.err = ErrSink

\* C9: for records encoded from an empty buffer and then flushed, the bytes
\* written are exactly the envelope opening, then per record 4 spaces,
\* <Name xmlns="NS">, per emitted field newline, 6 spaces, <f xmlns="">v</f>,
\* then newline, 4 spaces, </Name>, nothing between two root elements, then
\* newline, 2 spaces, </soap:Body>, newline, </soap:Envelope>.
C9_ExactBytes ==
  (last.op = "Flush" /\ Len(last.events) >= 1
     /\ \A i \in 1..Len(last.events) : ~last.events[i].fail)
    => /\ Len(written) = 1
       /\ written[1] =
            Opening
              \o Concat([i \in 1..Len(last.events) |-> RootElement(last.events[i].val)])
              \o Closing

C9_Witness ==
  /\ last.op = "Flush"
  /\ Len(last.events) = 2
  /\ \A i \in 1..2 : ~last.events[i].fail /\ Len(EmittedFields(last.events[i].val)) = 2
  /\ last.events[1].val \in Persons
  /\ last.events[2].val \in Items
  /\ Len(written) = 1

Positions(sub, s) ==
  { i \in 0..(Len(s) - Len(sub)) : SubSeq(s, i + 1, i + Len(sub)) = sub }

\* The start of any field element: newline, 6 spaces, <.
FieldIndent == NL \o Spaces(6) \o << "<" >>

\* C11: within one root element the emitted field elements appear in the
\* declared field order, the XMLName field is never emitted as a field
\* element wherever it is declared, and every field that is not omitted
\* appears exactly once.
C11_FieldOrder ==
  EncodeOk =>
    LET val == last.val
        shown == { i \in 1..Len(val) : val[i].Name # NameXMLName /\ ~SkipEmpty(val[i]) }
        at(i) == Positions(FieldElement(val[i]), Appended)
    IN  /\ \A i \in shown : Cardinality(at(i)) = 1
        /\ \A i, j \in shown :
             i < j => \A p \in at(i) : \A q \in at(j) : p < q
        /\ Cardinality(Positions(FieldIndent, Appended)) = Cardinality(shown)
        /\ \A i \in 1..Len(val) :
             val[i].Name = NameXMLName =>
               /\ Positions(FieldIndent \o NameXMLName, Appended) = { }
               /\ Positions(NL \o Spaces(6) \o FieldOpenTag(ElementName(val[i].Tag)),
                            Appended) = { }

C11_Witness ==
  /\ EncodeOk
  /\ last.val \in Items
  /\ last.val[2].Name = NameXMLName
  /\ ~ZeroValue(last.val[1])
  /\ \E p \in Positions(FieldElement(last.val[1]), Appended) :
       \E q \in Positions(FieldElement(last.val[3]), Appended) : p < q

\* C12: in every reachable state the buffer is empty or begins with the
\* envelope opening, which occurs in it exactly once; an Encode on a buffer
\* that is not empty adds no opening.
C12_OpeningOnce ==
  /\ buffer = << >> \/ (IsPrefix(Opening, buffer) /\ Positions(Opening, buffer) = { 0 })
  /\ (EncodeOk /\ last.buffer # << >>)
       => /\ IsPrefix(last.buffer, buffer)
          /\ Positions(Opening, buffer) = Positions(Opening, last.buffer)

C12_Witness ==
  /\ EncodeOk
  /\ Len(last.events) = 2
  /\ last.events[2].fail
  /\ Positions(Opening, buffer) = { 0 }
  /\ Len(buffer) > Len(last.buffer)

\* C13: every root element that an Encode call appends has a non-empty
\* element name, for every XMLName tag (an empty part before or after the
\* space, no space at all): what a call appends starts with 4 spaces, <
\* and a character of the name, and does not end with </>.
C13_RootNameNotEmpty ==
  (last.op = "Encode" /\ buffer # last.buffer)
    => /\ IsPrefix(last.buffer, buffer)
       /\ IsPrefix(Spaces(4) \o << "<" >>, Appended)
       /\ Len(Appended) > 5
       /\ Appended[6] \notin { " ", ">" }
       /\ ~IsSuffix(<< "<", "/", ">" >>, Appended)

C13_Witness ==
  /\ last.op = "Encode"
  /\ HasXMLName(last.val)
  /\ XMLTag(last.val) = << >>
  /\ buffer # last.buffer
  /\ IsPrefix(Spaces(4) \o << "<" >> \o NameXMLName, Appended)

\* C14 (as claimed): every byte string handed to the sink is one well-formed
\* envelope: it starts with the envelope opening, ends with the envelope
\* closing, holds the closing text exactly once, and holds no root element
\* after the closing.
C14_WrittenWellFormed ==
  \A n \in 1..Len(written) :
    LET w == written[n]
    IN  /\ IsPrefix(Opening, w)
        /\ IsSuffix(Closing, w)
        /\ Positions(Closing, w) = { Len(w) - Len(Closing) }
        /\ \A p \in Positions(Closing, w) :
             \A q \in Positions(Spaces(4) \o << "<" >>, w) : q < p

\* C15 (as claimed): a zero-valued field is omitted only when omitempty is
\* one of the modifiers after the first comma of its tag; a zero-valued
\* field without that modifier is emitted, also when its element name
\* contains the text omitempty.
C15_OmittedOnlyWithModifier ==
  EncodeOk =>
    \A i \in 1..Len(last.val) :
      LET field == last.val[i]
      IN  (field.Name # NameXMLName /\ ZeroValue(field) /\ ~HasOmitEmptyModifier(field.Tag))
            => Positions(FieldElement(field), Appended) # { }

\* C16: with two callers running Encode and Flush on the same encoder
\* without synchronization, an Encode whose accesses of the buffer all fall
\* between the sink write and the buffer reset of one Flush returns
\* success, and its root element is in no byte string handed to the sink
\* and no longer in the buffer: it is lost.
C16_LostBetweenWriteAndReset ==
  \A k \in lost :
    /\ k <= caller.k
    /\ k <= Len(caller.rets) => caller.rets[k] = ErrNil
    /\ k > Len(caller.rets) => (caller.pc = "ret" /\ caller.err = ErrNil)
    /\ Positions(RootElement(ConcRecord(k)), buffer) = { }
    /\ \A n \in 1..Len(sink) : Positions(RootElement(ConcRecord(k)), sink[n]) = { }

C16_Witness ==
  /\ caller.pc = "idle"
  /\ flusher.pc = "idle"
  /\ \E k \in lost : k <= Len(caller.rets) /\ caller.rets[k] = ErrNil
  /\ Len(sink) >= 1
  /\ buffer = << >>

====
